---- MODULE Spec2Model ----
(***************************************************************************)
(* State-machine model of the TRADUX front-end views that talk to the      *)
(* translation-pipeline REST API:                                          *)
(*   - Admin            (src/unnamed/part_003, lines 83-1280)              *)
(*   - TranslationTest  (src/unnamed/part_006, lines 90-570)               *)
(* The REST backend is an external collaborator: every response it gives   *)
(* is a nondeterministic choice over the outcomes a fetch() can have       *)
(* (2xx with a body, non-2xx with or without a JSON body, a rejected       *)
(* promise).  React state updates made by one event handler or one promise *)
(* continuation, the re-render and the effects that follow it are one      *)
(* atomic step, as on the single UI thread.                                *)
(***************************************************************************)
EXTENDS Integers, FiniteSets, Sequences, Bags, TLC

(***************************************************************************)
(* Bounds                                                                  *)
(***************************************************************************)
\* the number of HTTP requests that may be outstanding at the same time
MaxInFlight == 2

\* the number of pipeline runs the operator of the test view starts
MaxRuns == 2

\* the number of fetches of the results endpoint counted per run
MaxResultFetches == 2

\* the length of the correction notes the reviewer types
MaxNotesLen == 2

\* selections of files in the order wizard, and files per selection
MaxSelections == 2
MaxFiles == 2

\* the largest quantities the legacy form is taken to
MaxPages == 4
MaxWords == 130

(***************************************************************************)
(* Values                                                                  *)
(***************************************************************************)
\* the ids an order of the backend may have
OrderIds == {"A", "B"}

\* STATUS_LABELS / STATUS_COLORS keys
Taxonomy ==
  {"received", "translating", "proofreading", "pm_review", "client_review",
   "corrections", "approved", "completed", "translation_error",
   "pm_upload_ready", "final"}

\* a status string the lookup tables do not know
UnknownStatus == "ocr_processing"

\* a status string that names a property every object literal inherits from
\* Object.prototype
PrototypeStatus == "constructor"

\* the translation_status values a response may carry
Statuses == Taxonomy \cup {UnknownStatus, PrototypeStatus}

\* const STATUS_COLORS: Record<string, string> = {...}
STATUS_COLORS ==
  [s \in Taxonomy |->
     CASE s = "received" -> "#3182ce"
       [] s = "translating" -> "#805ad5"
       [] s = "proofreading" -> "#d69e2e"
       [] s = "pm_review" -> "#dd6b20"
       [] s = "client_review" -> "#38a169"
       [] s = "corrections" -> "#e53e3e"
       [] s = "approved" -> "#2f855a"
       [] s = "completed" -> "#276749"
       [] s = "translation_error" -> "#c53030"
       [] s = "pm_upload_ready" -> "#10b981"
       [] s = "final" -> "#065f46"]

\* const STATUS_LABELS: Record<string, string> = {...}
STATUS_LABELS ==
  [s \in Taxonomy |->
     CASE s = "received" -> "Received"
       [] s = "translating" -> "AI Translating"
       [] s = "proofreading" -> "AI Proofreading"
       [] s = "pm_review" -> "PM Review"
       [] s = "client_review" -> "Client Review"
       [] s = "corrections" -> "Corrections Needed"
       [] s = "approved" -> "Client Approved"
       [] s = "completed" -> "Completed"
       [] s = "translation_error" -> "Error"
       [] s = "pm_upload_ready" -> "READY"
       [] s = "final" -> "FINAL"]

\* the fallback background of the badge
NeutralColor == "#718096"

\* table[key] of JavaScript on an object literal: an own property, else a
\* property inherited from Object.prototype (a function), else undefined
Lookup(table, key) ==
  IF key \in DOMAIN table THEN table[key]
  ELSE IF key = PrototypeStatus THEN "[Function: Object]"
  ELSE "undefined"

\* x || y of JavaScript: undefined and the empty string are falsy
OrElse(x, y) == IF x \in {"undefined", ""} THEN y ELSE x

\* {STATUS_LABELS[status] || status}
BadgeLabel(status) == OrElse(Lookup(STATUS_LABELS, status), status)

\* background: STATUS_COLORS[status] || '#718096'
BadgeColor(status) == OrElse(Lookup(STATUS_COLORS, status), NeutralColor)

\* a poll that goes on only while the order is translating
TransientTranslatingOnly == {"translating"}

\* ['translating', 'proofreading'].includes(...)
Transient == {"translating", "proofreading"}

\* useState<Order | null>(null)
Null == [id |-> "null", status |-> "null", text |-> FALSE]

\* what setSelectedOrder receives when the GET answered non-2xx with a JSON
\* error body ({detail: ...}): an object without id and translation_status
ErrBody == [id |-> "undefined", status |-> "undefined", text |-> FALSE]

\* the order representations a successful GET /admin/orders/{o} may carry:
\* any status, and a source text (original_text) that may be empty only
\* before the pipeline ran
Bodies(o) ==
  {[id |-> o, status |-> s, text |-> t] :
     s \in Statuses, t \in BOOLEAN} \
  {[id |-> o, status |-> s, text |-> FALSE] :
     s \in Statuses \ {"received"}}

\* how a fetch() can end
Outcomes == {"ok", "http_detail", "http_nodetail", "http_nojson", "throw"}
Failures == Outcomes \ {"ok"}

\* the keys setActionLoading is called with by the order actions, and
\* "pm-upload" for the handler that uses uploadLoading instead
ActionKeys ==
  {"start", "re-translate", "approve", "complete", "save-html", "upload",
   "accept_upload", "pm-upload"}

\* the filter buttons the operator uses: "All" and one status (of the ten
\* rendered)
Filters == {"", "received"}

VARIABLES
  view,            \* which component this run mounts: "admin" | "test"
  mounted,         \* the component is mounted
  catalog,         \* the orders the backend holds (fixed during a run)
  backend,         \* the backend's translation_status of order "A", "any"
                   \* where the backend may answer with any status
  \* ---- Admin (useState hooks) ----
  loading,
  orders,          \* the displayed list: [items, flt]
  filterStatus,
  selectedOrder,
  actionLoading,
  uploadLoading,
  uploadFile,      \* a file is chosen in the upload tab
  editingHtml,
  activeTab,
  autoRefresh,
  intervals,       \* live setInterval timers: [id, sel, flt] closures
  cleanupId,       \* the interval the last effect run's cleanup will clear
  \* ---- TranslationTest (useState hooks and the pollRef ref) ----
  phase,
  orderId,         \* "null" for null
  order,           \* the translation_status of the fetched order, "null" for null
  translationHtml, \* the results endpoint's payload has been stored
  errorMsg,        \* an error message is set
  pollRef,         \* pollRef.current: the id of the interval created last, 0 for null
  runs,            \* test orders created so far (the backend numbers them)
  resultFetches,   \* fetches of the results endpoint since the last start
  \* ---- Review (useState hooks and the link the page was opened with) ----
  pathId,          \* the last segment of location.pathname, "" when empty
  token,           \* the token query parameter, "" when absent
  data,            \* the review data has been stored
  rLoading,        \* Review's loading
  error,           \* Review's error message, "" for none
  action,          \* the review action being submitted, "" for none
  correctionNotes, \* the textarea's content, a sequence of characters
  submitted,
  \* ---- translation content and where it is rendered ----
  content,         \* the content fields of an order: [html, proofread, translated]
  shown,           \* what a view renders for them: [where, text, truncated]
  \* ---- Home: the order wizard (useState hooks and running handlers) ----
  selectedFiles,   \* the files of the latest selection: [gen, n]
  uploadedDocs,    \* the documents stored by setUploadedDocs: a set of [gen, i]
  uploading,
  formLoading,
  fileRuns,        \* running handleFileChange calls: [gen, n, i, uploaded]
  orderRun,        \* handleOrderSubmit: [step, ids], ids = document_ids
  \* ---- the legacy order form (the value of its quantity inputs) ----
  pages,
  words,
  \* ---- network ----
  net,             \* bag of outstanding requests
  \* ---- observation ----
  picked,          \* the order card the operator clicked last
  toast            \* the toast the last step showed: "none" | "success" |
                   \* "detail" (the server's message) | "generic"

adminVars ==
  <<loading, orders, filterStatus, selectedOrder, actionLoading,
    uploadLoading, uploadFile, editingHtml, activeTab, autoRefresh,
    intervals, cleanupId>>

\* the Admin hooks other than the timers
adminVars_noTimers ==
  <<loading, orders, filterStatus, selectedOrder, actionLoading,
    uploadLoading, uploadFile, editingHtml, activeTab, autoRefresh, cleanupId>>

testVars ==
  <<phase, orderId, order, translationHtml, errorMsg, pollRef, runs,
    resultFetches>>

reviewVars ==
  <<pathId, token, data, rLoading, error, action, correctionNotes, submitted>>

contentVars == <<content, shown>>

\* the state of the pages other than Admin, TranslationTest and Review
wizardVars ==
  <<selectedFiles, uploadedDocs, uploading, formLoading, fileRuns, orderRun>>

formVars == <<pages, words>>

extraVars == <<contentVars, wizardVars, formVars>>

\* the state of Admin, TranslationTest and Review, and the requests
pageVars ==
  <<view, mounted, catalog, backend, adminVars, testVars, reviewVars, net,
    picked>>

vars ==
  <<view, mounted, catalog, backend, extraVars, adminVars, testVars,
    reviewVars, net, picked, toast>>

(***************************************************************************)
(* Requests                                                                *)
(***************************************************************************)
\* an outstanding fetch(): k is "list" (GET /admin/orders), "load" (GET
\* /admin/orders/{o}) or "post" (a mutating call); act is the handler that
\* awaits it; flt is the filterStatus its fetchOrders closure was made with
Req(k, act, o, flt) == [k |-> k, act |-> act, o |-> o, flt |-> flt]

NoReq == Req("-", "-", "-", "-")

InFlight == BagCardinality(net)

Room(n) == InFlight + n <= MaxInFlight

(***************************************************************************)
(* Admin: the auto-refresh effect                                          *)
(***************************************************************************)
\* an effect that never creates or clears a timer
PollEffectNever(rerun, ar, sel, flt) == UNCHANGED <<intervals, cleanupId>>

\* the cleanup of the previous effect run: return () => clearInterval(interval)
EffectCleanup(ivs, cid) == {t \in ivs : t.id # cid}

\* useEffect(..., [autoRefresh, selectedOrder]): when a dependency changed,
\* the previous run's cleanup clears its interval and, with autoRefresh set,
\* a new interval is created that closes over this render's selectedOrder
\* and fetchOrders
PollEffect(rerun, ar, sel, flt) ==
  IF ~rerun
  THEN UNCHANGED <<intervals, cleanupId>>
  ELSE LET kept == EffectCleanup(intervals, cleanupId)
       IN IF ~ar
          THEN intervals' = kept /\ cleanupId' = 0
          ELSE LET id == CHOOSE i \in 1..(Cardinality(kept) + 1) :
                            \A t \in kept : t.id # i
               IN /\ intervals' = kept \cup {[id |-> id, sel |-> sel, flt |-> flt]}
                  /\ cleanupId' = id

(***************************************************************************)
(* Admin: which buttons are rendered and enabled                           *)
(***************************************************************************)
\* a detail view that renders every button whatever the status
OfferedAnyStatus(a) == selectedOrder # Null

\* tabs that show all their buttons, whatever the status
OfferedOnTab(a) ==
  /\ selectedOrder # Null
  /\ activeTab = IF a \in {"accept_upload", "pm-upload"} THEN "upload"
                                                          ELSE "pipeline"

\* the status panels of the two tabs and the disabled= attribute of each
\* action's button
Offered(a) ==
  /\ selectedOrder # Null
  /\ CASE a = "start" ->
            /\ activeTab = "pipeline" /\ selectedOrder.status = "received"
            /\ ~(actionLoading = "start" \/ ~selectedOrder.text)
       [] a = "upload" ->
            /\ activeTab = "pipeline" /\ selectedOrder.status = "received"
            /\ ~selectedOrder.text
            /\ ~(actionLoading = "upload")
       [] a = "re-translate" ->
            /\ activeTab = "pipeline"
            /\ selectedOrder.status \in {"translation_error", "pm_review", "corrections"}
            /\ ~(actionLoading = "re-translate")
       [] a = "approve" ->
            /\ activeTab = "pipeline"
            /\ selectedOrder.status \in {"pm_review", "corrections"}
            /\ ~(actionLoading = "approve")
       [] a = "save-html" ->
            /\ activeTab = "pipeline"
            /\ selectedOrder.status \in {"pm_review", "corrections"}
            /\ editingHtml
            /\ ~(actionLoading = "save-html")
       [] a = "complete" ->
            /\ activeTab = "pipeline" /\ selectedOrder.status = "approved"
            /\ ~(actionLoading = "complete")
       [] a = "accept_upload" ->
            /\ activeTab = "upload" /\ selectedOrder.status = "pm_upload_ready"
            /\ ~(actionLoading = "accept_upload")
       [] a = "pm-upload" ->
            /\ activeTab = "upload"
            /\ selectedOrder.status # "pm_upload_ready"
            /\ selectedOrder.status # "final"
            /\ ~(~uploadFile \/ uploadLoading)
       [] OTHER -> FALSE

\* the translation_error panel of the pipeline tab, which holds the retry
\* button
ErrorPanelShown ==
  /\ selectedOrder # Null
  /\ activeTab = "pipeline"
  /\ selectedOrder.status = "translation_error"

\* setActionLoading(key) / setUploadLoading(true) at the head of a handler
Acquire(a) ==
  IF a = "pm-upload"
  THEN uploadLoading' = TRUE /\ UNCHANGED actionLoading
  ELSE actionLoading' = a /\ UNCHANGED uploadLoading

\* a handler that forgets to reset its flag
ReleaseNever(a) == UNCHANGED <<actionLoading, uploadLoading>>

\* setActionLoading('') / setUploadLoading(false) at the end of a handler
Release(a) ==
  IF a = "pm-upload"
  THEN uploadLoading' = FALSE /\ UNCHANGED actionLoading
  ELSE actionLoading' = "" /\ UNCHANGED uploadLoading

\* the handlers that call fetchOrders() after their reload of the order
RefetchesList(a) ==
  a \in {"start", "re-translate", "approve", "complete", "pm-upload", "accept_upload"}

\* the handlers that await resp.json() before they look at resp.ok
ParsesBody(a) ==
  a \in {"start", "re-translate", "upload", "pm-upload", "accept_upload"}

\* the toast a handler shows for a request that did not succeed
FailureToast(a, oc) ==
  CASE oc = "throw" -> "generic"
    [] oc = "http_nojson" ->
         IF ParsesBody(a) THEN "generic"
         ELSE IF a = "save-html" THEN "generic" ELSE "none"
    [] oc = "http_detail" ->
         IF a \in {"approve", "complete"} THEN "none"
         ELSE IF a = "save-html" THEN "generic" ELSE "detail"
    [] oc = "http_nodetail" ->
         IF a \in {"approve", "complete"} THEN "none" ELSE "generic"
    [] OTHER -> "none"

(***************************************************************************)
(* Admin: operator events                                                  *)
(***************************************************************************)
AdminLive == view = "admin" /\ mounted /\ ~loading

\* onClick={() => loadOrder(order.id)} on a card of the displayed list
ClickOrder(o) ==
  /\ AdminLive
  /\ o \in orders.items
  /\ Room(1)
  /\ net' = net (+) SetToBag({Req("load", "click", o, "-")})
  /\ picked' = o
  /\ toast' = "none"
  /\ UNCHANGED <<testVars, reviewVars, view, mounted, catalog, backend, extraVars, adminVars>>

\* the head of startTranslation, reTranslate, approvePM, markComplete,
\* saveHtmlEdit, uploadDocumentToOrder, acceptPmUpload, uploadPmTranslation:
\* take the in-flight flag and issue the POST for the displayed order
ClickAction(a) ==
  /\ AdminLive
  /\ Offered(a)
  /\ Room(1)
  /\ Acquire(a)
  /\ net' = net (+) SetToBag({Req("post", a, selectedOrder.id, filterStatus)})
  /\ toast' = "none"
  /\ UNCHANGED <<testVars, reviewVars, view, mounted, catalog, backend, extraVars, loading, orders, filterStatus, selectedOrder,
                 uploadFile, editingHtml, activeTab, autoRefresh, intervals,
                 cleanupId, picked>>

\* onClick={() => setActiveTab(...)}
SetActiveTab(t) ==
  /\ AdminLive
  /\ selectedOrder # Null
  /\ activeTab # t
  /\ activeTab' = t
  /\ toast' = "none"
  /\ UNCHANGED <<testVars, reviewVars, view, mounted, catalog, backend, extraVars, loading, orders, filterStatus, selectedOrder,
                 actionLoading, uploadLoading, uploadFile, editingHtml,
                 autoRefresh, intervals, cleanupId, net, picked>>

\* the "Edit HTML" toggle and the editor's Cancel button
ToggleEditHtml ==
  /\ AdminLive
  /\ selectedOrder # Null
  /\ activeTab = "pipeline"
  /\ selectedOrder.status \in {"pm_review", "corrections"}
  /\ editingHtml' = ~editingHtml
  /\ toast' = "none"
  /\ UNCHANGED <<testVars, reviewVars, view, mounted, catalog, backend, extraVars, loading, orders, filterStatus, selectedOrder,
                 actionLoading, uploadLoading, uploadFile, activeTab,
                 autoRefresh, intervals, cleanupId, net, picked>>

\* onChange={(e) => setUploadFile(e.target.files?.[0] || null)}
ChooseUploadFile(f) ==
  /\ AdminLive
  /\ selectedOrder # Null
  /\ activeTab = "upload"
  /\ selectedOrder.status # "pm_upload_ready"
  /\ selectedOrder.status # "final"
  /\ uploadFile # f
  /\ uploadFile' = f
  /\ toast' = "none"
  /\ UNCHANGED <<testVars, reviewVars, view, mounted, catalog, backend, extraVars, loading, orders, filterStatus, selectedOrder,
                 actionLoading, uploadLoading, editingHtml, activeTab,
                 autoRefresh, intervals, cleanupId, net, picked>>

\* onClick={() => { setFilterStatus(s); }}: fetchOrders is re-created for the
\* new filterStatus, so the mount effect, which depends on it, runs again and
\* calls it; the auto-refresh effect does not depend on it and keeps the
\* interval whose callback closed over the previous fetchOrders
SetFilter(s) ==
  /\ AdminLive
  /\ filterStatus # s
  /\ Room(1)
  /\ filterStatus' = s
  /\ net' = net (+) SetToBag({Req("list", "-", "-", s)})
  /\ toast' = "none"
  /\ UNCHANGED <<testVars, reviewVars, view, mounted, catalog, backend, extraVars, loading, orders, selectedOrder,
                 actionLoading, uploadLoading, uploadFile, editingHtml,
                 activeTab, autoRefresh, intervals, cleanupId, picked>>

\* the header's refresh button: fetchOrders() (and fetchStats())
ClickRefresh ==
  /\ AdminLive
  /\ Room(1)
  /\ net' = net (+) SetToBag({Req("list", "-", "-", filterStatus)})
  /\ toast' = "none"
  /\ UNCHANGED <<testVars, reviewVars, view, mounted, catalog, backend, extraVars, adminVars, picked>>

(***************************************************************************)
(* Admin: the interval callback                                            *)
(***************************************************************************)
\* setInterval(() => {...}, 5000): with a transient captured order, reload
\* it and the list; otherwise setAutoRefresh(false), whose re-render runs
\* the effect's cleanup
Tick(t) ==
  /\ view = "admin" /\ mounted
  /\ t \in intervals
  /\ IF t.sel # Null /\ t.sel.status \in Transient
     THEN /\ Room(2)
          /\ net' = net (+) SetToBag({Req("load", "poll", t.sel.id, "-")})
                        (+) SetToBag({Req("list", "-", "-", t.flt)})
          /\ UNCHANGED <<autoRefresh, intervals, cleanupId>>
     ELSE /\ autoRefresh' = FALSE
          /\ PollEffect(autoRefresh # FALSE, FALSE, selectedOrder, filterStatus)
          /\ UNCHANGED net
  /\ toast' = "none"
  /\ UNCHANGED <<testVars, reviewVars, view, mounted, catalog, backend, extraVars, loading, orders, filterStatus, selectedOrder,
                 actionLoading, uploadLoading, uploadFile, editingHtml,
                 activeTab, picked>>

(***************************************************************************)
(* Admin: completions of fetch()                                           *)
(***************************************************************************)
\* the outcomes the backend can give a request: an id that is no order's
\* (the "undefined" of an error body) is never answered 2xx
ServerOutcomes(r) == IF r.o = "undefined" THEN Failures ELSE Outcomes

\* fetchOrders: resp.json() is applied whatever resp.ok says, and
\* setOrders(data.orders || []) follows unless fetch or json() threw
ListParsed(oc) == oc \in {"ok", "http_detail", "http_nodetail"}

\* the orders GET /admin/orders may list for a filter: all of them without a
\* filter, those in the filter's status otherwise
Listed(flt) == IF flt = "" THEN {catalog} ELSE SUBSET catalog

ListBody(oc, flt, items) ==
  IF oc = "ok" THEN [items |-> items, flt |-> flt]
               ELSE [items |-> {}, flt |-> flt]

DeliverList(r, oc) ==
  /\ view = "admin" /\ mounted
  /\ r \in BagToSet(net) /\ r.k = "list"
  /\ net' = net (-) SetToBag({r})
  /\ \E items \in Listed(r.flt) :
       orders' = IF ListParsed(oc) THEN ListBody(oc, r.flt, items) ELSE orders
  /\ loading' = FALSE
  /\ toast' = IF ListParsed(oc) THEN "none" ELSE "generic"
  /\ UNCHANGED <<testVars, reviewVars, view, mounted, catalog, backend, extraVars, filterStatus, selectedOrder, actionLoading,
                 uploadLoading, uploadFile, editingHtml, activeTab,
                 autoRefresh, intervals, cleanupId, picked>>

\* loadOrder: resp.json() is applied whatever resp.ok says, and
\* setSelectedOrder(data) follows unless fetch or json() threw
LoadParsed(oc) == oc \in {"ok", "http_detail", "http_nodetail"}

\* a loadOrder that patches the status it expects into what it fetched
LoadedBodyPatched(oc, body) == [body EXCEPT !.status = "translating"]

\* a loadOrder that keeps the order it displays, whatever it fetched
LoadedBodyKept(oc, body) == selectedOrder

LoadedBody(oc, body) == IF oc = "ok" THEN body ELSE ErrBody

\* the completion of loadOrder, and of the handler that awaited it:
\* fetchOrders() for the handlers that refresh the list, then the release of
\* the in-flight flag
DeliverLoad(r, oc, body) ==
  /\ view = "admin" /\ mounted
  /\ r \in BagToSet(net) /\ r.k = "load"
  /\ oc \in ServerOutcomes(r)
  /\ LET sel1 == IF LoadParsed(oc) THEN LoadedBody(oc, body) ELSE selectedOrder
         ar1  == IF LoadParsed(oc) /\ sel1.status \in Transient
                 THEN TRUE ELSE autoRefresh
     IN /\ selectedOrder' = sel1
        /\ autoRefresh' = ar1
        /\ PollEffect(LoadParsed(oc) \/ ar1 # autoRefresh, ar1, sel1, filterStatus)
  /\ IF r.act \in ActionKeys
     THEN /\ Release(r.act)
          /\ net' = IF RefetchesList(r.act)
                    THEN (net (-) SetToBag({r}))
                           (+) SetToBag({Req("list", "-", "-", r.flt)})
                    ELSE net (-) SetToBag({r})
     ELSE /\ UNCHANGED <<actionLoading, uploadLoading>>
          /\ net' = net (-) SetToBag({r})
  /\ toast' = IF LoadParsed(oc) THEN "none" ELSE "generic"
  /\ UNCHANGED <<testVars, reviewVars, view, mounted, catalog, backend, extraVars, loading, orders, filterStatus, uploadFile,
                 editingHtml, activeTab, picked>>

\* if (resp.ok) of the mutating handlers
PostSucceeded(a, oc) == oc = "ok"

\* the completion of a handler's POST: on success the success toast, the
\* handler's own state changes and the awaited loadOrder(orderId); otherwise
\* the failure toast and the release of the in-flight flag
DeliverPost(r, oc) ==
  /\ view = "admin" /\ mounted
  /\ r \in BagToSet(net) /\ r.k = "post"
  /\ oc \in ServerOutcomes(r)
  /\ IF PostSucceeded(r.act, oc)
     THEN /\ autoRefresh' = IF r.act \in {"start", "re-translate"}
                            THEN TRUE ELSE autoRefresh
          /\ PollEffect(autoRefresh' # autoRefresh, autoRefresh',
                        selectedOrder, filterStatus)
          /\ editingHtml' = IF r.act = "save-html" THEN FALSE ELSE editingHtml
          /\ uploadFile' = IF r.act = "pm-upload" THEN FALSE ELSE uploadFile
          /\ net' = (net (-) SetToBag({r}))
                      (+) SetToBag({Req("load", r.act, r.o, r.flt)})
          /\ toast' = "success"
          /\ UNCHANGED <<actionLoading, uploadLoading>>
     ELSE /\ Release(r.act)
          /\ net' = net (-) SetToBag({r})
          /\ toast' = FailureToast(r.act, oc)
          /\ UNCHANGED <<autoRefresh, intervals, cleanupId, editingHtml,
                         uploadFile>>
  /\ UNCHANGED <<testVars, reviewVars, view, mounted, catalog, backend, extraVars, loading, orders, filterStatus, selectedOrder,
                 activeTab, picked>>

(***************************************************************************)
(* Unmount                                                                 *)
(***************************************************************************)
\* leaving the page: React runs the cleanup of the last effect run
AdminUnmount ==
  /\ view = "admin" /\ mounted
  /\ mounted' = FALSE
  /\ intervals' = EffectCleanup(intervals, cleanupId)
  /\ cleanupId' = 0
  /\ toast' = "none"
  /\ UNCHANGED <<testVars, reviewVars, view, catalog, backend, extraVars, loading, orders, filterStatus, selectedOrder,
                 actionLoading, uploadLoading, uploadFile, editingHtml,
                 activeTab, autoRefresh, net, picked>>

\* the fetch a handler still issues when the response it awaited arrives
\* after the unmount: loadOrder(orderId) after a successful POST,
\* fetchOrders() after the reload, fetchTranslationResult(orderId) in poll()
FollowUp(r, oc, st) ==
  CASE r.k = "post" /\ PostSucceeded(r.act, oc) ->
         SetToBag({Req("load", r.act, r.o, r.flt)})
    [] r.k = "load" /\ r.act \in ActionKeys /\ RefetchesList(r.act) ->
         SetToBag({Req("list", "-", "-", r.flt)})
    [] r.k = "poll" /\ oc = "ok" /\ st \in {"pm_review", "client_review", "completed"} ->
         SetToBag({Req("result", "-", r.o, "-")})
    [] OTHER -> EmptyBag

\* a response that arrives after the unmount: the state setters of an
\* unmounted component do nothing
DeliverUnmounted(r, oc, st) ==
  /\ ~mounted
  /\ r \in BagToSet(net)
  /\ r.k # "poll" => st = "received"
  /\ net' = (net (-) SetToBag({r})) (+) FollowUp(r, oc, st)
  /\ toast' = "none"
  /\ UNCHANGED <<testVars, reviewVars, view, mounted, catalog, backend, extraVars, adminVars, picked>>

(***************************************************************************)
(* TranslationTest: the poll effect                                        *)
(***************************************************************************)
TestLive == view = "test" /\ mounted

\* an effect that leaves its interval running
ClearPollRefNoop(ivs, ref) == ivs

\* if (pollRef.current) clearInterval(pollRef.current)
ClearPollRef(ivs, ref) == {t \in ivs : t.id # ref}

\* the negation of the effect's early-return condition
\* !orderId || (phase !== 'translating' && phase !== 'proofreading')
Polling(oid, ph) == oid # "null" /\ ph \in {"translating", "proofreading"}

\* useEffect(..., [orderId, phase]) over the timers ivs and the requests nb
\* the handler leaves: the interval pollRef names is cleared (by the previous
\* run's cleanup or by the early-return branch) and, when polling, poll() is
\* called at once and a new interval stored in pollRef.current
TestEffect(rerun, oid, ph, ivs, nb) ==
  IF ~rerun
  THEN intervals' = ivs /\ net' = nb /\ UNCHANGED pollRef
  ELSE LET kept == ClearPollRef(ivs, pollRef)
       IN IF ~Polling(oid, ph)
          THEN intervals' = kept /\ net' = nb /\ UNCHANGED pollRef
          ELSE LET id == CHOOSE i \in 1..(Cardinality(kept) + 1) :
                            \A t \in kept : t.id # i
               IN /\ intervals' = kept \cup {[id |-> id, sel |-> oid, flt |-> "-"]}
                  /\ pollRef' = id
                  /\ net' = nb (+) SetToBag({Req("poll", "-", oid, "-")})

(***************************************************************************)
(* TranslationTest: operator events and the interval callback              *)
(***************************************************************************)
\* handleStartPipeline up to its first await; the start button is rendered
\* while the pipeline is neither running, done nor in error
ClickStartPipeline ==
  /\ TestLive
  /\ phase = "idle"
  /\ runs < MaxRuns
  /\ Room(1)
  /\ phase' = "creating"
  /\ errorMsg' = FALSE
  /\ translationHtml' = FALSE
  /\ order' = "null"
  /\ resultFetches' = 0
  /\ TestEffect(TRUE, orderId, "creating", intervals,
                net (+) SetToBag({Req("create", "-", "-", "-")}))
  /\ toast' = "none"
  /\ UNCHANGED <<reviewVars, view, mounted, catalog, backend, extraVars, adminVars_noTimers, orderId, runs, picked>>

\* handleReset; its buttons are rendered in the error box and when done
ClickReset ==
  /\ TestLive
  /\ phase \in {"error", "pm_review"}
  /\ phase' = "idle"
  /\ orderId' = "null"
  /\ order' = "null"
  /\ translationHtml' = FALSE
  /\ errorMsg' = FALSE
  /\ TestEffect(TRUE, "null", "idle", ClearPollRef(intervals, pollRef), net)
  /\ toast' = "none"
  /\ UNCHANGED <<reviewVars, view, mounted, catalog, backend, extraVars, adminVars_noTimers, runs,
                 resultFetches, picked>>

\* setInterval(poll, 4000): poll() for the orderId the effect run closed over
TestTick(t) ==
  /\ TestLive
  /\ t \in intervals
  /\ Room(1)
  /\ net' = net (+) SetToBag({Req("poll", "-", t.sel, "-")})
  /\ toast' = "none"
  /\ UNCHANGED <<reviewVars, view, mounted, catalog, backend, extraVars, adminVars, testVars, picked>>

(***************************************************************************)
(* TranslationTest: completions of fetch()                                 *)
(***************************************************************************)
\* the statuses for which poll() ends the run and fetches the results
DoneStatuses == {"pm_review", "client_review", "completed"}

\* the phase poll() sets for a fetched status
PhaseAfterPoll(st, ph) ==
  CASE st = "translating" -> "translating"
    [] st = "proofreading" -> "proofreading"
    [] st \in DoneStatuses -> "pm_review"
    [] st = "translation_error" -> "error"
    [] OTHER -> ph

\* whether poll() calls fetchTranslationResult(orderId) for a fetched status
FetchesResult(st) == st \in DoneStatuses

\* the completion of poll()'s fetch: if (!resp.ok) return, and a throw is
\* swallowed; otherwise setOrder(data) and the branch on data.translation_status
DeliverPoll(r, oc, st) ==
  /\ TestLive
  /\ r \in BagToSet(net) /\ r.k = "poll"
  /\ IF oc = "ok"
     THEN /\ FetchesResult(st) => resultFetches < MaxResultFetches
          /\ order' = st
          /\ phase' = PhaseAfterPoll(st, phase)
          /\ errorMsg' = IF st = "translation_error" THEN TRUE ELSE errorMsg
          /\ resultFetches' = IF FetchesResult(st)
                              THEN resultFetches + 1 ELSE resultFetches
          /\ TestEffect(phase' # phase, orderId, phase',
                        IF FetchesResult(st) \/ st = "translation_error"
                        THEN ClearPollRef(intervals, pollRef) ELSE intervals,
                        IF FetchesResult(st)
                        THEN (net (-) SetToBag({r}))
                               (+) SetToBag({Req("result", "-", r.o, "-")})
                        ELSE net (-) SetToBag({r}))
     ELSE /\ net' = net (-) SetToBag({r})
          /\ UNCHANGED <<order, phase, errorMsg, resultFetches, intervals, pollRef>>
  /\ toast' = "none"
  /\ UNCHANGED <<reviewVars, view, mounted, catalog, backend, extraVars, adminVars_noTimers, orderId,
                 translationHtml, runs, picked>>

\* the completion of fetchTranslationResult's fetch
DeliverResult(r, oc) ==
  /\ TestLive
  /\ r \in BagToSet(net) /\ r.k = "result"
  /\ net' = net (-) SetToBag({r})
  /\ translationHtml' = IF oc = "ok" THEN TRUE ELSE translationHtml
  /\ toast' = "none"
  /\ UNCHANGED <<reviewVars, view, mounted, catalog, backend, extraVars, adminVars, phase, orderId, order,
                 errorMsg, pollRef, runs, resultFetches, picked>>

\* createData.order_id: the id the backend gives the n-th order created
CreatedId(n) == ToString(n)

\* the toast of handleStartPipeline's catch block: err.detail of a JSON error
\* body, else a fixed message
PipelineFailureToast(oc) == IF oc = "http_detail" THEN "detail" ELSE "generic"

\* handleStartPipeline after the create-test-order call: setOrderId and the
\* start-translation call, or the catch block
DeliverCreate(r, oc) ==
  /\ TestLive
  /\ r \in BagToSet(net) /\ r.k = "create"
  /\ IF oc = "ok"
     THEN /\ runs' = runs + 1
          /\ orderId' = CreatedId(runs + 1)
          /\ TestEffect(orderId' # orderId, orderId', phase, intervals,
                        (net (-) SetToBag({r}))
                          (+) SetToBag({Req("startpipe", "-", CreatedId(runs + 1), "-")}))
          /\ toast' = "success"
          /\ UNCHANGED <<phase, errorMsg>>
     ELSE /\ phase' = "error"
          /\ errorMsg' = TRUE
          /\ TestEffect(phase' # phase, orderId, "error", intervals,
                        net (-) SetToBag({r}))
          /\ toast' = PipelineFailureToast(oc)
          /\ UNCHANGED <<runs, orderId>>
  /\ UNCHANGED <<reviewVars, view, mounted, catalog, backend, extraVars, adminVars_noTimers, order,
                 translationHtml, resultFetches, picked>>

\* handleStartPipeline after the start-translation call: setPhase('translating')
\* or the catch block
DeliverStartPipe(r, oc) ==
  /\ TestLive
  /\ r \in BagToSet(net) /\ r.k = "startpipe"
  /\ phase' = IF oc = "ok" THEN "translating" ELSE "error"
  /\ errorMsg' = IF oc = "ok" THEN errorMsg ELSE TRUE
  /\ TestEffect(phase' # phase, orderId, phase', intervals, net (-) SetToBag({r}))
  /\ toast' = IF oc = "ok" THEN "success" ELSE PipelineFailureToast(oc)
  /\ UNCHANGED <<reviewVars, view, mounted, catalog, backend, extraVars, adminVars_noTimers, orderId, order,
                 translationHtml, runs, resultFetches, picked>>

\* leaving the page: the cleanup of the last effect run
TestUnmount ==
  /\ TestLive
  /\ mounted' = FALSE
  /\ intervals' = ClearPollRef(intervals, pollRef)
  /\ toast' = "none"
  /\ UNCHANGED <<reviewVars, view, catalog, backend, extraVars, adminVars_noTimers, testVars, net, picked>>

(***************************************************************************)
(* Review: the client's review page                                        *)
(***************************************************************************)
\* the characters the reviewer types: a whitespace and a letter
Chars == {" ", "x"}

\* the contents of the correction-notes textarea
Notes == UNION {[1..n -> Chars] : n \in 0..MaxNotesLen}

\* String.prototype.trim
RECURSIVE TrimStart(_)
TrimStart(s) ==
  IF s # <<>> /\ Head(s) = " " THEN TrimStart(Tail(s)) ELSE s

RECURSIVE TrimEnd(_)
TrimEnd(s) ==
  IF s # <<>> /\ s[Len(s)] = " " THEN TrimEnd(SubSeq(s, 1, Len(s) - 1)) ELSE s

\* a validation that takes the notes as typed
TrimNothing(s) == s

Trim(s) == TrimEnd(TrimStart(s))

\* the links the page may be opened with: location.pathname's last segment
\* and the token parameter, either of which may be empty
PathIds == {"", "A"}
Tokens == {"", "t"}

\* a page that takes every link for a complete one
LinkCompleteAlways(oid, tok) == TRUE

\* the negation of !orderId || !token
LinkComplete(oid, tok) == oid # "" /\ tok # ""

\* how the review endpoint can answer: 2xx, a rejection of the token (401 /
\* 403) or another HTTP error (5xx), each with or without a JSON detail, a
\* non-2xx answer whose body is not JSON, or no answer at all
ReviewOutcomes ==
  {"ok", "rejected_detail", "rejected_nodetail", "error_detail",
   "error_nodetail", "http_nojson", "throw"}
TokenRejections == {"rejected_detail", "rejected_nodetail"}
OtherFailures == {"error_detail", "error_nodetail", "http_nojson", "throw"}

\* the messages of the page
InvalidLink == "Invalid review link."
InvalidOrExpired == "Invalid or expired review link"
FailedToFetch == "Failed to fetch"

\* a request of the page: fetch(`${API_URL}/review/${orderId}?token=${token}`)
\* with, for a POST, the action and correction_notes of the body
ReviewReq(k, act, notes) ==
  [k |-> k, act |-> act, o |-> pathId, tok |-> token, notes |-> notes]

\* correction_notes: correctionNotes || undefined
NotesSent(n) == IF n = <<>> THEN "undefined" ELSE n

\* the screen Review renders: the early returns for loading, error,
\* submitted and missing data, then the form
Screen ==
  IF rLoading THEN "loading"
  ELSE IF error # "" THEN "error"
  ELSE IF submitted THEN "thanks"
  ELSE IF ~data THEN "blank"
  ELSE "form"

\* a page that keeps the form after a successful submission
FormKeptAfterSubmit ==
  /\ view = "review" /\ mounted
  /\ ~rLoading /\ error = "" /\ data

\* the page past its loading, error and thank-you screens
ReviewLive ==
  /\ view = "review" /\ mounted
  /\ ~rLoading /\ error = "" /\ ~submitted /\ data

\* onChange={(e) => setCorrectionNotes(e.target.value)}
TypeNotes(n) ==
  /\ ReviewLive
  /\ n # correctionNotes
  /\ correctionNotes' = n
  /\ toast' = "none"
  /\ UNCHANGED <<view, mounted, catalog, backend, extraVars, adminVars, testVars, pathId, token,
                 data, rLoading, error, action, submitted, net, picked>>

\* buttons that stay enabled while a submission is outstanding
SubmitNeverDisabled == FALSE

\* disabled={!!action}, on both buttons
SubmitDisabled == action # ""

\* handleSubmit up to its fetch
ClickSubmit(ra) ==
  /\ ReviewLive
  /\ ~SubmitDisabled
  /\ IF ra = "request_correction" /\ Trim(correctionNotes) = <<>>
     THEN /\ toast' = "validation"
          /\ UNCHANGED <<action, net>>
     ELSE /\ Room(1)
          /\ action' = ra
          /\ net' = net (+) SetToBag({ReviewReq("review_post", ra,
                                                NotesSent(correctionNotes))})
          /\ toast' = "none"
  /\ UNCHANGED <<view, mounted, catalog, backend, extraVars, adminVars, testVars, pathId, token,
                 data, rLoading, error, correctionNotes, submitted, picked>>

\* the message the load effect stores for a failed GET: the fixed message
\* for every non-2xx answer, e.message of the rejected fetch otherwise
LoadError(oc) == IF oc = "throw" THEN FailedToFetch ELSE InvalidOrExpired

\* the completion of the load effect's fetch
DeliverReviewLoad(r, oc) ==
  /\ view = "review" /\ mounted
  /\ r \in BagToSet(net) /\ r.k = "review_get"
  /\ net' = net (-) SetToBag({r})
  /\ data' = IF oc = "ok" THEN TRUE ELSE data
  /\ error' = IF oc = "ok" THEN error ELSE LoadError(oc)
  /\ rLoading' = FALSE
  /\ toast' = "none"
  /\ UNCHANGED <<view, mounted, catalog, backend, extraVars, adminVars, testVars, pathId, token,
                 action, correctionNotes, submitted, picked>>

\* the toast handleSubmit shows for an answer: result.message, result.detail
\* || 'Something went wrong', or 'Failed to submit review' from the catch
SubmitToast(oc) ==
  CASE oc = "ok" -> "success"
    [] oc \in {"rejected_detail", "error_detail"} -> "detail"
    [] oc \in {"rejected_nodetail", "error_nodetail"} -> "generic"
    [] OTHER -> "failed"

\* handleSubmit after its fetch
DeliverReviewPost(r, oc) ==
  /\ view = "review" /\ mounted
  /\ r \in BagToSet(net) /\ r.k = "review_post"
  /\ net' = net (-) SetToBag({r})
  /\ submitted' = IF oc = "ok" THEN TRUE ELSE submitted
  /\ action' = ""
  /\ toast' = SubmitToast(oc)
  /\ UNCHANGED <<view, mounted, catalog, backend, extraVars, adminVars, testVars, pathId, token,
                 data, rLoading, error, correctionNotes, picked>>

\* leaving the page
ReviewUnmount ==
  /\ view = "review" /\ mounted
  /\ mounted' = FALSE
  /\ toast' = "none"
  /\ UNCHANGED <<view, catalog, backend, extraVars, adminVars, testVars, reviewVars, net, picked>>

(***************************************************************************)
(* Translation content: which field a view renders                         *)
(***************************************************************************)
\* the values a content field of a fetched order may have: absent, empty, a
\* text, a text of more than 3000 characters
HtmlTexts == {"undefined", "", "h", "hh"}
ProofreadTexts == {"undefined", "", "p", "pp"}
TranslatedTexts == {"undefined", "", "t", "tt"}

Contents ==
  [html : HtmlTexts, proofread : ProofreadTexts, translated : TranslatedTexts]

\* the placeholder 'Translation not available'
NotAvailable == "not available"

\* order.translation_html || order.proofread_text || order.translated_text || ''
getTranslationHtml(o) ==
  OrElse(OrElse(OrElse(o.html, o.proofread), o.translated), "")

\* x.length > 3000
Long(x) == x \in {"hh", "pp", "tt"}

\* x.substring(0, 3000)
Substring3000(x) ==
  CASE x = "hh" -> "h"
    [] x = "pp" -> "p"
    [] x = "tt" -> "t"
    [] OTHER -> x

NothingShown == [where |-> "-", text |-> "-", truncated |-> FALSE]

ContentLive == view = "content"

\* Admin's translation preview: getTranslationHtml(selectedOrder)
\* .substring(0, 3000) || 'Translation not available', then the truncation
\* note
ShowAdminPreview ==
  /\ ContentLive
  /\ shown' = [where |-> "admin",
               text |-> OrElse(Substring3000(getTranslationHtml(content)),
                               NotAvailable),
               truncated |-> Long(getTranslationHtml(content))]
  /\ UNCHANGED <<pageVars, content, wizardVars, formVars, toast>>

\* the earlier Admin's proofread panel: selectedOrder.proofread_text ||
\* selectedOrder.translated_text || 'Translation not available'
ShowProofreadPanel ==
  /\ ContentLive
  /\ shown' = [where |-> "panel",
               text |-> OrElse(OrElse(content.proofread, content.translated),
                               NotAvailable),
               truncated |-> FALSE]
  /\ UNCHANGED <<pageVars, content, wizardVars, formVars, toast>>

\* Review's translation box: the iframe over data.proofread_text, or
\* data.proofread_text || 'Translation not available.'
ShowReview ==
  /\ ContentLive
  /\ shown' = [where |-> "review",
               text |-> OrElse(content.proofread, NotAvailable),
               truncated |-> FALSE]
  /\ UNCHANGED <<pageVars, content, wizardVars, formVars, toast>>

(***************************************************************************)
(* Home: the order wizard                                                  *)
(***************************************************************************)
\* useState<File[]>([]) and the other useState initial values of Home
NoFiles == [gen |-> 0, n |-> 0]

NoOrderRun == [step |-> "none", ids |-> {}]

WizardFresh ==
  /\ selectedFiles = NoFiles
  /\ uploadedDocs = {}
  /\ uploading = FALSE
  /\ formLoading = FALSE
  /\ fileRuns = {}
  /\ orderRun = NoOrderRun

\* the page until window.location.href takes the browser to the checkout
WizardLive == view = "wizard" /\ orderRun.step # "redirected"

\* how the upload, quote and checkout endpoints can answer
UploadOutcomes == {"ok", "http", "throw"}

\* handleFileChange up to its first await: an empty selection returns at
\* once; otherwise setSelectedFiles, setUploading(true) and the upload of
\* the first file (the input is never disabled)
ChooseFiles(n) ==
  /\ WizardLive
  /\ selectedFiles.gen < MaxSelections
  /\ IF n = 0
     THEN UNCHANGED <<selectedFiles, uploading, fileRuns>>
     ELSE LET g == selectedFiles.gen + 1
          IN /\ selectedFiles' = [gen |-> g, n |-> n]
             /\ uploading' = TRUE
             /\ fileRuns' = fileRuns \cup
                              {[gen |-> g, n |-> n, i |-> 1, uploaded |-> {}]}
  /\ toast' = "none"
  /\ UNCHANGED <<pageVars, contentVars, formVars, uploadedDocs, formLoading,
                 orderRun>>

\* handleFileChange after the answer to the upload of file run.i: push the
\* document or show the error toast, then the next file, or after the last
\* one setUploadedDocs(uploaded), setUploading(false) and the success toast
DeliverUpload(run, oc) ==
  /\ WizardLive
  /\ run \in fileRuns
  /\ LET up == IF oc = "ok"
               THEN run.uploaded \cup {[gen |-> run.gen, i |-> run.i]}
               ELSE run.uploaded
     IN IF run.i < run.n
        THEN /\ fileRuns' = (fileRuns \ {run}) \cup
                              {[run EXCEPT !.i = @ + 1, !.uploaded = up]}
             /\ toast' = IF oc = "ok" THEN "none" ELSE "generic"
             /\ UNCHANGED <<uploadedDocs, uploading>>
        ELSE /\ fileRuns' = fileRuns \ {run}
             /\ uploadedDocs' = up
             /\ uploading' = FALSE
             /\ toast' = IF up # {} THEN "success"
                         ELSE IF oc = "ok" THEN "none" ELSE "generic"
  /\ UNCHANGED <<pageVars, contentVars, formVars, selectedFiles, formLoading,
                 orderRun>>

\* handleOrderSubmit up to its first await; the submit button is
\* disabled={formLoading}
SubmitOrder ==
  /\ WizardLive
  /\ ~formLoading
  /\ IF selectedFiles.n = 0
     THEN /\ toast' = "validation"
          /\ UNCHANGED <<formLoading, orderRun>>
     ELSE /\ formLoading' = TRUE
          /\ orderRun' = [step |-> "quote", ids |-> uploadedDocs]
          /\ toast' = "none"
  /\ UNCHANGED <<pageVars, contentVars, formVars, selectedFiles, uploadedDocs,
                 uploading, fileRuns>>

\* handleOrderSubmit after the answer of /calculate-quote: the checkout
\* request, or the catch block
DeliverQuote(oc) ==
  /\ WizardLive
  /\ orderRun.step = "quote"
  /\ IF oc = "ok"
     THEN /\ orderRun' = [orderRun EXCEPT !.step = "checkout"]
          /\ toast' = "none"
          /\ UNCHANGED formLoading
     ELSE /\ orderRun' = NoOrderRun
          /\ formLoading' = FALSE
          /\ toast' = "generic"
  /\ UNCHANGED <<pageVars, contentVars, formVars, selectedFiles, uploadedDocs,
                 uploading, fileRuns>>

\* handleOrderSubmit after the answer of /create-payment-checkout: the
\* redirect when the answer holds a checkout_url, else the catch block
DeliverCheckout(oc, url) ==
  /\ WizardLive
  /\ orderRun.step = "checkout"
  /\ IF oc = "ok" /\ url
     THEN /\ orderRun' = [orderRun EXCEPT !.step = "redirected"]
          /\ toast' = "none"
          /\ UNCHANGED formLoading
     ELSE /\ orderRun' = NoOrderRun
          /\ formLoading' = FALSE
          /\ toast' = "generic"
  /\ UNCHANGED <<pageVars, contentVars, formVars, selectedFiles, uploadedDocs,
                 uploading, fileRuns>>

(***************************************************************************)
(* The legacy order form: initOrderForm's quantity handlers                *)
(***************************************************************************)
\* the minimum of the pages input, and the minimum and the minus step of
\* the words input
MinPages == 1
MinWords == 100
WordsStep == 100

\* the values the inputs are rendered with
FormFresh == pages = MinPages /\ words = MinWords

LegacyLive == view = "legacy"

\* the click handler of a .quantity-btn.plus: currentValue + 1 for either
\* field
ClickPlus(field) ==
  /\ LegacyLive
  /\ IF field = "pages"
     THEN pages < MaxPages /\ pages' = pages + 1 /\ UNCHANGED words
     ELSE words < MaxWords /\ words' = words + 1 /\ UNCHANGED pages
  /\ UNCHANGED <<pageVars, contentVars, wizardVars, toast>>

\* the click handler of a .quantity-btn.minus
ClickMinus(field) ==
  /\ LegacyLive
  /\ IF field = "pages"
     THEN /\ pages' = IF pages > MinPages THEN pages - 1 ELSE pages
          /\ UNCHANGED words
     ELSE /\ words' = IF words > MinWords THEN words - WordsStep ELSE words
          /\ UNCHANGED pages
  /\ UNCHANGED <<pageVars, contentVars, wizardVars, toast>>

\* a manual edit of an input to the number v, and its change handler
EditQuantity(field, v) ==
  /\ LegacyLive
  /\ IF field = "pages"
     THEN /\ pages' = IF v < MinPages THEN MinPages ELSE v
          /\ UNCHANGED words
     ELSE /\ words' = IF v < MinWords THEN MinWords ELSE v
          /\ UNCHANGED pages
  /\ UNCHANGED <<pageVars, contentVars, wizardVars, toast>>

\* the pages other than Admin, TranslationTest and Review are not open
ExtraFresh ==
  /\ content = [html |-> "undefined", proofread |-> "undefined",
                translated |-> "undefined"]
  /\ shown = NothingShown
  /\ WizardFresh
  /\ FormFresh

(***************************************************************************)
(* Specifications                                                          *)
(***************************************************************************)
\* the useState initial values of Admin
AdminFresh ==
  /\ loading = TRUE
  /\ orders = [items |-> {}, flt |-> ""]
  /\ filterStatus = ""
  /\ selectedOrder = Null
  /\ actionLoading = ""
  /\ uploadLoading = FALSE
  /\ uploadFile = FALSE
  /\ editingHtml = FALSE
  /\ activeTab = "pipeline"
  /\ autoRefresh = FALSE
  /\ intervals = {}
  /\ cleanupId = 0

\* the useState and useRef initial values of TranslationTest
TestFresh ==
  /\ phase = "idle"
  /\ orderId = "null"
  /\ order = "null"
  /\ translationHtml = FALSE
  /\ errorMsg = FALSE
  /\ pollRef = 0
  /\ runs = 0
  /\ resultFetches = 0

\* the useState initial values of Review
ReviewFresh ==
  /\ data = FALSE
  /\ rLoading = TRUE
  /\ error = ""
  /\ action = ""
  /\ correctionNotes = <<>>
  /\ submitted = FALSE

\* Admin after its first render: the mount effect's fetchOrders() is out
InitAdminView ==
  /\ view = "admin"
  /\ ExtraFresh
  /\ backend = "any"
  /\ mounted = TRUE
  /\ AdminFresh
  /\ TestFresh
  /\ pathId = "" /\ token = ""
  /\ ReviewFresh
  /\ net = SetToBag({Req("list", "-", "-", "")})
  /\ picked = "none"
  /\ toast = "none"

NextAdmin ==
  \/ \E o \in OrderIds : ClickOrder(o)
  \/ \E a \in ActionKeys : ClickAction(a)
  \/ \E t \in {"pipeline", "upload"} : SetActiveTab(t)
  \/ ToggleEditHtml
  \/ \E f \in BOOLEAN : ChooseUploadFile(f)
  \/ ClickRefresh
  \/ \E t \in intervals : Tick(t)
  \/ \E r \in BagToSet(net), oc \in Outcomes : DeliverList(r, oc)
  \/ \E r \in BagToSet(net), oc \in Outcomes :
       \E body \in Bodies(r.o) \cup {Null} :
          /\ (oc = "ok") = (body # Null)
          /\ DeliverLoad(r, oc, body)
  \/ \E r \in BagToSet(net), oc \in Outcomes : DeliverPost(r, oc)
  \/ AdminUnmount
  \/ \E r \in BagToSet(net), oc \in Outcomes :
       \E st \in Statuses : DeliverUnmounted(r, oc, st)

\* the Admin view over a backend that holds one order
InitAdmin == InitAdminView /\ catalog = {"A"}

SpecAdmin == InitAdmin /\ [][NextAdmin]_vars

\* TranslationTest after its first render
InitTest ==
  /\ view = "test"
  /\ ExtraFresh
  /\ backend = "any"
  /\ mounted = TRUE
  /\ catalog = {}
  /\ AdminFresh
  /\ TestFresh
  /\ pathId = "" /\ token = ""
  /\ ReviewFresh
  /\ net = EmptyBag
  /\ picked = "none"
  /\ toast = "none"

NextTest ==
  \/ ClickStartPipeline
  \/ ClickReset
  \/ \E t \in intervals : TestTick(t)
  \/ \E r \in BagToSet(net), oc \in Outcomes :
       \E st \in Statuses : DeliverPoll(r, oc, st)
  \/ \E r \in BagToSet(net), oc \in Outcomes : DeliverResult(r, oc)
  \/ \E r \in BagToSet(net), oc \in Outcomes : DeliverCreate(r, oc)
  \/ \E r \in BagToSet(net), oc \in Outcomes : DeliverStartPipe(r, oc)
  \/ TestUnmount
  \/ \E r \in BagToSet(net), oc \in Outcomes :
       \E st \in Statuses : DeliverUnmounted(r, oc, st)

SpecTest == InitTest /\ [][NextTest]_vars

\* Review after its first render and load effect, for any link: an
\* incomplete link stores the error, a complete one issues the GET
InitReview ==
  /\ view = "review"
  /\ ExtraFresh
  /\ backend = "any"
  /\ mounted = TRUE
  /\ catalog = {}
  /\ AdminFresh
  /\ TestFresh
  /\ pathId \in PathIds /\ token \in Tokens
  /\ data = FALSE /\ action = "" /\ correctionNotes = <<>> /\ submitted = FALSE
  /\ IF LinkComplete(pathId, token)
     THEN /\ rLoading = TRUE /\ error = ""
          /\ net = SetToBag({ReviewReq("review_get", "-", "undefined")})
     ELSE /\ rLoading = FALSE /\ error = InvalidLink
          /\ net = EmptyBag
  /\ picked = "none"
  /\ toast = "none"

NextReview ==
  \/ \E n \in Notes : TypeNotes(n)
  \/ \E ra \in {"approve", "request_correction"} : ClickSubmit(ra)
  \/ \E r \in BagToSet(net), oc \in ReviewOutcomes : DeliverReviewLoad(r, oc)
  \/ \E r \in BagToSet(net), oc \in ReviewOutcomes : DeliverReviewPost(r, oc)
  \/ ReviewUnmount
  \/ \E r \in BagToSet(net), oc \in Outcomes :
       \E st \in Statuses : DeliverUnmounted(r, oc, st)

SpecReview == InitReview /\ [][NextReview]_vars

\* any of the views
Init == InitAdmin \/ InitTest \/ InitReview

Next == NextAdmin \/ NextTest \/ NextReview

Spec == Init /\ [][Next]_vars

\* the Admin view over a backend that holds two orders, with an operator
\* who selects orders and starts or retries translations
SelectActions == {"start", "re-translate"}

InitSelect == InitAdminView /\ catalog = {"A", "B"}

NextSelect ==
  \/ \E o \in OrderIds : ClickOrder(o)
  \/ \E a \in SelectActions : ClickAction(a)
  \/ \E t \in intervals : Tick(t)
  \/ \E r \in BagToSet(net), oc \in Outcomes : DeliverList(r, oc)
  \/ \E r \in BagToSet(net), oc \in Outcomes :
       \E body \in Bodies(r.o) \cup {Null} :
          /\ (oc = "ok") = (body # Null)
          /\ DeliverLoad(r, oc, body)
  \/ \E r \in BagToSet(net), oc \in Outcomes : DeliverPost(r, oc)

SpecSelect == InitSelect /\ [][NextSelect]_vars

\* the Admin view over a backend that holds one order, with an operator who
\* also changes the filter and refreshes the list
InitFilter == InitAdminView /\ catalog = {"A"}

NextFilter ==
  \/ \E o \in OrderIds : ClickOrder(o)
  \/ \E a \in SelectActions : ClickAction(a)
  \/ ClickRefresh
  \/ \E s \in Filters : SetFilter(s)
  \/ \E t \in intervals : Tick(t)
  \/ \E r \in BagToSet(net), oc \in Outcomes : DeliverList(r, oc)
  \/ \E r \in BagToSet(net), oc \in Outcomes :
       \E body \in Bodies(r.o) \cup {Null} :
          /\ (oc = "ok") = (body # Null)
          /\ DeliverLoad(r, oc, body)
  \/ \E r \in BagToSet(net), oc \in Outcomes : DeliverPost(r, oc)

SpecFilter == InitFilter /\ [][NextFilter]_vars

(***************************************************************************)
(* The happy path: a backend that runs the pipeline                        *)
(***************************************************************************)
\* the backend-driven part of the status chain
Pipeline == <<"received", "translating", "proofreading", "pm_review">>

\* the status that follows st in the pipeline
NextStage(st) ==
  LET i == CHOOSE j \in 1..Len(Pipeline) : Pipeline[j] = st
  IN Pipeline[i + 1]

\* POST /admin/start-translation is taken by the backend: the order becomes
\* translating before the request is answered
BackendStart ==
  /\ backend = "received"
  /\ \E r \in BagToSet(net) : r.k = "post" /\ r.act = "start"
  /\ backend' = "translating"
  /\ toast' = "none"
  /\ UNCHANGED <<view, mounted, catalog, extraVars, adminVars, testVars,
                 reviewVars, net, picked>>

\* the backend moves the order from translating to proofreading and from
\* proofreading to pm_review
BackendAdvance ==
  /\ backend \in {"translating", "proofreading"}
  /\ backend' = NextStage(backend)
  /\ toast' = "none"
  /\ UNCHANGED <<view, mounted, catalog, extraVars, adminVars, testVars,
                 reviewVars, net, picked>>

\* what GET /admin/orders/A answers while the pipeline runs: the order in
\* the backend's status, with its source text
Served == [id |-> "A", status |-> backend, text |-> TRUE]

\* the start request is answered 2xx once the backend has taken it
HappyPost(r) == backend # "received" /\ DeliverPost(r, "ok")

HappyLoad(r) == DeliverLoad(r, "ok", Served)

HappyList(r) == DeliverList(r, "ok")

HappyTick == \E t \in intervals : Tick(t)

\* order A of the list is displayed, in received, with a source text that
\* may be empty, in either tab; nothing is outstanding
InitHappy ==
  /\ view = "admin"
  /\ ExtraFresh
  /\ mounted = TRUE
  /\ catalog = {"A"}
  /\ backend = "received"
  /\ loading = FALSE
  /\ orders = [items |-> {"A"}, flt |-> ""]
  /\ filterStatus = ""
  /\ selectedOrder \in {[id |-> "A", status |-> "received", text |-> t] :
                           t \in BOOLEAN}
  /\ actionLoading = ""
  /\ uploadLoading = FALSE
  /\ uploadFile = FALSE
  /\ editingHtml = FALSE
  /\ activeTab \in {"pipeline", "upload"}
  /\ autoRefresh = FALSE
  /\ intervals = {}
  /\ cleanupId = 0
  /\ TestFresh
  /\ pathId = "" /\ token = ""
  /\ ReviewFresh
  /\ net = EmptyBag
  /\ picked = "A"
  /\ toast = "none"

\* the operator starts the translation and then only watches, switching
\* tabs and choosing files at most
NextHappy ==
  \/ ClickAction("start")
  \/ \E t \in {"pipeline", "upload"} : SetActiveTab(t)
  \/ \E f \in BOOLEAN : ChooseUploadFile(f)
  \/ BackendStart
  \/ BackendAdvance
  \/ \E r \in BagToSet(net) : HappyPost(r)
  \/ \E r \in BagToSet(net) : HappyLoad(r)
  \/ \E r \in BagToSet(net) : HappyList(r)
  \/ HappyTick

\* every request is answered, every armed timer fires, the backend works
HappyFairness ==
  /\ WF_vars(BackendStart)
  /\ WF_vars(BackendAdvance)
  /\ WF_vars(\E r \in BagToSet(net) : HappyPost(r))
  /\ WF_vars(\E r \in BagToSet(net) : HappyLoad(r))
  /\ WF_vars(\E r \in BagToSet(net) : HappyList(r))
  /\ WF_vars(HappyTick)

SpecHappy == InitHappy /\ [][NextHappy]_vars /\ HappyFairness

(***************************************************************************)
(* The manual upload path: a backend that takes the PM's file              *)
(***************************************************************************)
\* POST /admin/upload-pm-translation is taken by the backend: the order
\* becomes pm_upload_ready before the request is answered
BackendUpload ==
  /\ backend = "received"
  /\ \E r \in BagToSet(net) : r.k = "post" /\ r.act = "pm-upload"
  /\ backend' = "pm_upload_ready"
  /\ toast' = "none"
  /\ UNCHANGED <<view, mounted, catalog, extraVars, adminVars, testVars,
                 reviewVars, net, picked>>

\* POST /admin/accept-pm-upload is taken by the backend: the order becomes
\* final before the request is answered
BackendAccept ==
  /\ backend = "pm_upload_ready"
  /\ \E r \in BagToSet(net) : r.k = "post" /\ r.act = "accept_upload"
  /\ backend' = "final"
  /\ toast' = "none"
  /\ UNCHANGED <<view, mounted, catalog, extraVars, adminVars, testVars,
                 reviewVars, net, picked>>

\* a request is answered 2xx once the backend has taken it
ManualPost(r) ==
  /\ r.act = "pm-upload" => backend # "received"
  /\ r.act = "accept_upload" => backend = "final"
  /\ DeliverPost(r, "ok")

ManualActions == {"upload", "pm-upload", "accept_upload"}

\* the operator uploads a source document where it is missing, uploads the
\* PM's translation and accepts it
NextManual ==
  \/ \E a \in ManualActions : ClickAction(a)
  \/ \E t \in {"pipeline", "upload"} : SetActiveTab(t)
  \/ \E f \in BOOLEAN : ChooseUploadFile(f)
  \/ BackendUpload
  \/ BackendAccept
  \/ \E r \in BagToSet(net) : ManualPost(r)
  \/ \E r \in BagToSet(net) : HappyLoad(r)
  \/ \E r \in BagToSet(net) : HappyList(r)

\* every request is taken by the backend and answered
ManualFairness ==
  /\ WF_vars(BackendUpload)
  /\ WF_vars(BackendAccept)
  /\ WF_vars(\E r \in BagToSet(net) : ManualPost(r))
  /\ WF_vars(\E r \in BagToSet(net) : HappyLoad(r))
  /\ WF_vars(\E r \in BagToSet(net) : HappyList(r))

SpecManual == InitHappy /\ [][NextManual]_vars /\ ManualFairness

\* the three React pages closed
PagesClosed ==
  /\ mounted = TRUE
  /\ catalog = {}
  /\ backend = "any"
  /\ AdminFresh
  /\ TestFresh
  /\ pathId = "" /\ token = ""
  /\ ReviewFresh
  /\ net = EmptyBag
  /\ picked = "none"
  /\ toast = "none"

\* an order with any content fields, rendered by each of the views
InitContent ==
  /\ view = "content"
  /\ PagesClosed
  /\ content \in Contents
  /\ shown = NothingShown
  /\ WizardFresh
  /\ FormFresh

NextContent == ShowAdminPreview \/ ShowProofreadPanel \/ ShowReview

SpecContent == InitContent /\ [][NextContent]_vars

\* Home after its first render
InitWizard ==
  /\ view = "wizard"
  /\ PagesClosed
  /\ ExtraFresh

NextWizard ==
  \/ \E n \in 0..MaxFiles : ChooseFiles(n)
  \/ \E run \in fileRuns, oc \in UploadOutcomes : DeliverUpload(run, oc)
  \/ SubmitOrder
  \/ \E oc \in UploadOutcomes : DeliverQuote(oc)
  \/ \E oc \in UploadOutcomes, url \in BOOLEAN : DeliverCheckout(oc, url)

SpecWizard == InitWizard /\ [][NextWizard]_vars

\* the numbers a visitor types into the quantity inputs
PagesEdits == -1..MaxPages
WordsEdits == {-1, 0, 99, 100, 101, MaxWords}

\* the legacy form as rendered
InitLegacy ==
  /\ view = "legacy"
  /\ PagesClosed
  /\ ExtraFresh

NextLegacy ==
  \/ \E f \in {"pages", "words"} : ClickPlus(f)
  \/ \E f \in {"pages", "words"} : ClickMinus(f)
  \/ \E v \in PagesEdits : EditQuantity("pages", v)
  \/ \E v \in WordsEdits : EditQuantity("words", v)

SpecLegacy == InitLegacy /\ [][NextLegacy]_vars

(***************************************************************************)
(* Claims                                                                  *)
(***************************************************************************)
\* the outstanding mutating requests that satisfy P
PostsWhere(P(_)) ==
  LET S == {r \in BagToSet(net) : r.k = "post" /\ P(r)}
  IN BagCardinality([r \in S |-> net[r]])

PostsFor(o) == LET P(r) == r.o = o IN PostsWhere(P)

PostsOf(a, o) == LET P(r) == r.o = o /\ r.act = a IN PostsWhere(P)

\* C1: at most one mutating request for an order is outstanding at any time,
\* and while one is outstanding for the displayed order every action button
\* is disabled.
C1_OneMutatingRequest ==
  view = "admin" =>
    /\ \A o \in OrderIds \cup {"undefined"} : PostsFor(o) <= 1
    /\ (mounted /\ selectedOrder # Null /\ PostsFor(selectedOrder.id) >= 1)
         => \A a \in ActionKeys : ~Offered(a)

\* C2: an action's button is inert while that action's request is in flight,
\* so no action ever has two requests outstanding for an order, whatever was
\* clicked in between.
C2_OneCallPerAction ==
  view = "admin" =>
    \A a \in ActionKeys, o \in OrderIds \cup {"undefined"} : PostsOf(a, o) <= 1

\* C3: once the operator has selected order B and B is displayed, a poll
\* response for another order A changes neither the displayed order nor
\* arms a timer that polls A.
C3_StalePollIgnored ==
  [][\A r \in BagToSet(net) : \A body \in Bodies(r.o) :
        (/\ r.act = "poll"
         /\ picked # r.o
         /\ selectedOrder.id = picked
         /\ DeliverLoad(r, "ok", body))
        => /\ selectedOrder'.id = picked
           /\ \A t \in intervals' : t.sel.id # r.o]_vars

\* C4: once the operator has selected order B and B is displayed, the reload
\* that follows the completion of an action on another order A does not
\* replace the displayed order.
C4_StaleActionReloadDiscarded ==
  [][\A r \in BagToSet(net) : \A body \in Bodies(r.o) :
        (/\ r.act \in ActionKeys
         /\ picked # r.o
         /\ selectedOrder.id = picked
         /\ DeliverLoad(r, "ok", body))
        => selectedOrder'.id = picked]_vars

\* C5: when the load of an order the operator clicked completes with a status
\* that is neither translating nor proofreading, no poll timer is live.
C5_NoTimerAfterSettledSelect ==
  [][\A r \in BagToSet(net) : \A body \in Bodies(r.o) :
        (/\ r.act = "click"
         /\ body.status \notin Transient
         /\ DeliverLoad(r, "ok", body))
        => intervals' = {}]_vars

\* C6: at most one interval timer is live in any state of either view, and
\* none once the view has unmounted.
C6_SingleTimer ==
  /\ Cardinality(intervals) <= 1
  /\ ~mounted => intervals = {}

\* C6 witness: the test view polls an order it saw change to proofreading.
C6_Witness ==
  /\ view = "test" /\ mounted
  /\ phase = "proofreading" /\ order = "proofreading"
  /\ Cardinality(intervals) = 1

\* C7: a poll response for the current run keeps polling armed when the
\* status is transient; for pm_review, client_review or completed it disarms
\* polling and the results endpoint has then been fetched exactly once in
\* this run; for translation_error it disarms polling without a results fetch.
C7_PollTick ==
  [][\A r \in BagToSet(net) : \A st \in Taxonomy :
        (r.o = orderId /\ DeliverPoll(r, "ok", st))
        => /\ st \in Transient => intervals' # {}
           /\ st \in DoneStatuses => intervals' = {} /\ resultFetches' = 1
           /\ st = "translation_error" =>
                intervals' = {} /\ resultFetches' = resultFetches]_vars

\* C8: when a mutating action's request fails, the displayed order is left
\* as it was and the action's in-flight flag no longer disables its button.
C8_FailedActionKeepsOrder ==
  [][\A r \in BagToSet(net) : \A oc \in Failures :
        DeliverPost(r, oc)
        => /\ selectedOrder' = selectedOrder
           /\ IF r.act = "pm-upload" THEN ~uploadLoading'
                                     ELSE actionLoading' # r.act]_vars

\* C8 witness: a failed action has shown the server's message and the flag
\* is back to idle with the order still displayed.
C8_Witness ==
  /\ view = "admin" /\ mounted
  /\ toast = "detail"
  /\ selectedOrder.status = "pm_review"
  /\ actionLoading = ""

\* C9: every failed mutating action shows an error toast: the server's detail
\* when the response carries one, a generic message otherwise.
C9_FailureSurfaced ==
  [][\A r \in BagToSet(net) : \A oc \in Failures :
        DeliverPost(r, oc)
        => toast' = IF oc = "http_detail" THEN "detail" ELSE "generic"]_vars

\* C10: a read that fails (non-2xx or a throw) changes neither the displayed
\* order nor the displayed list.
C10_FailedReadNoMutation ==
  [][\A r \in BagToSet(net) : \A oc \in Failures :
        (DeliverLoad(r, oc, Null) \/ DeliverList(r, oc))
        => selectedOrder' = selectedOrder /\ orders' = orders]_vars

\* C11: the displayed order is never patched locally: selectedOrder changes
\* only when a GET of an order completes, and then to that response's body;
\* a successful mutating action leaves selectedOrder as it is and issues the
\* GET of its order, whose body is what the view shows next.
C11_NoLocalPatch ==
  [][/\ selectedOrder' # selectedOrder =>
          \E r \in BagToSet(net), oc \in Outcomes :
             \E body \in Bodies(r.o) \cup {Null} :
                /\ (oc = "ok") = (body # Null)
                /\ DeliverLoad(r, oc, body)
                /\ selectedOrder' = IF oc = "ok" THEN body ELSE ErrBody
     /\ \A r \in BagToSet(net) :
          DeliverPost(r, "ok") =>
             /\ selectedOrder' = selectedOrder
             /\ Req("load", r.act, r.o, r.flt) \in BagToSet(net')]_vars

\* C11 witness: start-translation succeeded, the order still shows the
\* status it had, and the handler's GET of the order is outstanding.
C11_Witness ==
  /\ view = "admin" /\ mounted
  /\ toast = "success"
  /\ selectedOrder.status = "received"
  /\ \E r \in BagToSet(net) : r.k = "load" /\ r.act = "start"

\* C12: when the displayed list is a successful response for the selected
\* filter and the last outstanding request completes with a successful list
\* response, the displayed list is still one fetched for the selected filter.
C12_ListMatchesFilter ==
  [][\A r \in BagToSet(net) :
        (/\ orders.flt = filterStatus
         /\ orders.items # {}
         /\ DeliverList(r, "ok")
         /\ net' = EmptyBag)
        => orders'.flt = filterStatus]_vars

\* the outstanding requests of action a
Calls(a) == LET P(r) == r.act = a IN PostsWhere(P)

\* C13: a start-translation request is issued only while the displayed order
\* is in status received and has a source text, and it is for that order.
C13_StartOnlyFromReceived ==
  [][Calls("start")' > Calls("start") =>
        /\ selectedOrder.status = "received"
        /\ selectedOrder.text
        /\ PostsOf("start", selectedOrder.id)' > PostsOf("start", selectedOrder.id)]_vars

\* C13 witness: the start-translation request of a received order with a
\* source text is outstanding.
C13_Witness ==
  /\ view = "admin" /\ mounted
  /\ selectedOrder.status = "received" /\ selectedOrder.text
  /\ actionLoading = "start"
  /\ PostsOf("start", selectedOrder.id) = 1

\* C15: an approve-pm request is issued only while the displayed order is in
\* status pm_review.
C15_ApproveOnlyFromPmReview ==
  [][Calls("approve")' > Calls("approve") =>
        selectedOrder.status = "pm_review"]_vars

\* C16: a mark-complete request is issued only while the displayed order is
\* in status approved, and an accept-pm-upload request only while it is in
\* status pm_upload_ready.
C16_FinalizeAndAcceptGated ==
  [][/\ Calls("complete")' > Calls("complete") =>
          selectedOrder.status = "approved"
     /\ Calls("accept_upload")' > Calls("accept_upload") =>
          selectedOrder.status = "pm_upload_ready"]_vars

\* C16 witness: a mark-complete request and an accept-pm-upload request are
\* outstanding (the order was approved, then shown as pm_upload_ready).
C16_Witness ==
  /\ view = "admin" /\ mounted
  /\ Calls("complete") = 1
  /\ Calls("accept_upload") = 1

\* C17: while the displayed order has a status outside the taxonomy, no
\* mutating action is offered in either tab.
C17_UnknownStatusFailSafe ==
  (view = "admin" /\ mounted /\ selectedOrder.status = UnknownStatus)
    => \A a \in ActionKeys : ~Offered(a)

\* C18: the badge of the displayed order: a taxonomy status has a non-empty
\* label and a colour no other taxonomy status has (and not the neutral
\* one); any other status string has itself as label and the neutral colour.
C18_BadgeTotal ==
  (view = "admin" /\ mounted /\ selectedOrder \notin {Null, ErrBody}) =>
    LET st == selectedOrder.status
    IN IF st \in Taxonomy
       THEN /\ BadgeLabel(st) # ""
            /\ BadgeColor(st) # NeutralColor
            /\ \A t \in Taxonomy \ {st} : BadgeColor(t) # BadgeColor(st)
       ELSE /\ BadgeLabel(st) = st
            /\ BadgeColor(st) = NeutralColor

\* the outstanding POSTs of the review page
ReviewPosts ==
  LET S == {r \in BagToSet(net) : r.k = "review_post"}
  IN BagCardinality([r \in S |-> net[r]])

\* notes that are empty or consist of whitespace only
Blank(n) == \A i \in 1..Len(n) : n[i] = " "

\* C14: submitting request_correction with empty or whitespace-only notes
\* issues no request and leaves the page state as it was; with other notes
\* it issues one POST, which carries the notes, and never is more than one
\* POST of the page outstanding.
C14_CorrectionNeedsNotes ==
  [][/\ ClickSubmit("request_correction") =>
          IF Blank(correctionNotes)
          THEN net' = net /\ UNCHANGED reviewVars
          ELSE /\ BagCardinality(net') = BagCardinality(net) + 1
               /\ ReviewReq("review_post", "request_correction", correctionNotes)
                     \in BagToSet(net')
     /\ ReviewPosts' <= 1]_vars

\* C14 witness: whitespace-only notes were submitted and refused, with
\* nothing outstanding.
C14_Witness ==
  /\ view = "review" /\ mounted
  /\ toast = "validation"
  /\ correctionNotes = <<" ", " ">>
  /\ net = EmptyBag

C20_InvalidOrExpiredDistinct ==
  [][\A r \in BagToSet(net) :
        /\ \A oc \in TokenRejections :
              /\ DeliverReviewLoad(r, oc) => error' = InvalidOrExpired
              /\ DeliverReviewPost(r, oc) => toast' = "detail"
        /\ \A oc \in OtherFailures :
              /\ DeliverReviewLoad(r, oc) => error' \notin {"", InvalidOrExpired}
              /\ DeliverReviewPost(r, oc) => toast' \in {"detail", "generic", "failed"}]_vars

\* C21: on the review page at most one submission is outstanding at any
\* time; while one is outstanding both buttons are disabled, and no step
\* adds a second POST to it.
C21_OneReviewSubmission ==
  [][/\ ReviewPosts' <= 1
     /\ ReviewPosts = 1 => (action # "" /\ ReviewPosts' <= ReviewPosts)]_vars

\* C21 witness: an approval is outstanding on the live page, with room for
\* another request, and the buttons are disabled.
C21_Witness ==
  /\ ReviewLive
  /\ ReviewPosts = 1
  /\ action = "approve"
  /\ Room(1)

\* the order is displayed in pm_review and no timer is armed
HappySettled ==
  /\ selectedOrder.status = "pm_review"
  /\ intervals = {}
  /\ ~autoRefresh

\* C22: on the happy path, once the backend has taken the start request, a
\* timer that closes over the displayed order is armed whenever the displayed
\* status is translating or proofreading, and without operator input the
\* view comes to display pm_review with polling disarmed, and stays so.
C22_HappyPathSettles ==
  /\ [](selectedOrder.status \in {"translating", "proofreading"} =>
          /\ autoRefresh
          /\ \E t \in intervals : t.sel = selectedOrder)
  /\ (backend = "translating") ~> []HappySettled

\* C22 witness: the pipeline ran to pm_review, which is displayed with no
\* timer armed and nothing outstanding.
C22_Witness ==
  /\ backend = "pm_review"
  /\ HappySettled
  /\ net = EmptyBag
  /\ orders.items = {"A"}

Fallback(where, o) ==
  LET plain == OrElse(OrElse(o.proofread, o.translated), NotAvailable)
  IN IF where = "admin" THEN Substring3000(OrElse(o.html, plain)) ELSE plain

\* C25: wherever translation content is rendered, what is shown is (the
\* first 3000 characters of) the proofread text if present, else the
\* translated text if present, else the placeholder, the full admin view
\* taking the markup payload first.
C25_ContentFallback ==
  shown.where # "-" =>
    shown.text = Fallback(shown.where, content)

\* the outstanding requests of handler a: its POST, or the reload it awaits
HandlerReqs(a) ==
  LET S == {r \in BagToSet(net) : r.act = a /\ r.k \in {"post", "load"}}
  IN BagCardinality([r \in S |-> net[r]])

\* C26: while Admin is mounted, a held in-flight flag belongs to a request
\* of that handler that is still outstanding, and whenever a handler ends
\* (its POST did not succeed, or the reload after a successful POST was
\* answered, whatever the outcome) its flag is idle afterwards: no flag
\* outlives its handler's requests.
C26_FlagReleased ==
  /\ [](mounted =>
          /\ actionLoading # "" => HandlerReqs(actionLoading) > 0
          /\ uploadLoading => HandlerReqs("pm-upload") > 0)
  /\ [][mounted =>
          \A a \in ActionKeys :
             HandlerReqs(a)' < HandlerReqs(a) =>
               IF a = "pm-upload" THEN ~uploadLoading'
                                  ELSE actionLoading' = ""]_vars

\* C26 witness: a handler's POST was answered non-2xx with the server's
\* message, and with nothing outstanding both flags are idle.
C26_Witness ==
  /\ AdminLive
  /\ toast = "detail"
  /\ actionLoading = "" /\ ~uploadLoading
  /\ net = EmptyBag

\* C27: once the pipeline-test view is idle (after handleReset, as before
\* the first start) it stays idle, with no order id, no order data and no
\* live timer, until handleStartPipeline runs; no answer to a poll changes
\* phase or order.
C27_ResetStaysIdle ==
  [][(TestLive /\ phase = "idle") =>
        \/ ClickStartPipeline
        \/ /\ phase' = "idle"
           /\ orderId' = "null"
           /\ order' = "null"
           /\ intervals' = {}]_vars

\* C28: a submission answered 2xx puts the review page on its thank-you
\* screen, and from then on the page stays submitted and issues no request;
\* a submission that failed (non-2xx, unreadable body or network error)
\* leaves the form on screen with the notes as entered and both buttons
\* enabled.
C28_SubmitOnceOrRetry ==
  [][/\ \A r \in BagToSet(net) :
          /\ DeliverReviewPost(r, "ok") => (submitted' /\ Screen' = "thanks")
          /\ \A oc \in ReviewOutcomes \ {"ok"} :
                DeliverReviewPost(r, oc) =>
                  /\ Screen' = "form"
                  /\ correctionNotes' = correctionNotes
                  /\ action' = ""
     /\ submitted =>
          /\ submitted'
          /\ Screen' = "thanks"
          /\ InFlight' <= InFlight]_vars

\* C28 witness: the thank-you screen after a request for corrections that
\* the server accepted; the notes that were sent are still in the state.
C28_Witness ==
  /\ view = "review" /\ mounted
  /\ Screen = "thanks"
  /\ toast = "success"
  /\ correctionNotes = <<"x">>
  /\ net = EmptyBag

\* C29: handleOrderSubmit issues the quote request only when no upload is
\* in progress and a document of the current selection is stored, so the
\* request's document_ids is not empty; and the checkout request follows
\* only a quote request that succeeded.
C29_QuoteNeedsUploadedDocs ==
  [][/\ (SubmitOrder /\ orderRun'.step = "quote") =>
          /\ ~uploading /\ fileRuns = {}
          /\ orderRun'.ids # {}
          /\ \E d \in orderRun'.ids : d.gen = selectedFiles.gen
     /\ (orderRun.step # "checkout" /\ orderRun'.step = "checkout") =>
          (orderRun.step = "quote" /\ DeliverQuote("ok"))]_vars

\* C30: in the legacy order form the pages quantity is at least 1 and the
\* words quantity at least 100, whatever plus clicks, minus clicks and manual
\* edits were made.
C30_QuantityMinimums ==
  view = "legacy" => (pages >= 1 /\ words >= 100)

====
